---- MODULE Spec2Model ----
(***************************************************************************)
(* Model of the Vinted integration of the reselling dashboard:             *)
(*   src/integrations/vinted/normalizer.py  (pure mapping functions)       *)
(*   src/integrations/vinted/adapter.py     (VintedAdapter)                *)
(*   src/database.py                        (remote-store access layer)    *)
(* Python strings are modelled as sequences of one-character strings, so   *)
(* that slicing, case mapping, splitting and substring search are computed *)
(* rather than assumed.                                                    *)
(***************************************************************************)
EXTENDS Integers, Sequences, FiniteSets, TLC

VARIABLES
    items,      \* rows of the remote table 'items', in insertion order
    settings,   \* remote table 'settings': key -> value (None when no row)
    logs,       \* rows of the remote table 'vinted_integration_logs'
    market,     \* what the external search returns for the search target
    now,        \* the wall clock, int(datetime.now().timestamp()); it moves on
                \* whenever an operation begins
    enabled,    \* VintedAdapter.enabled, one adapter per caller
    pc,         \* where each caller's current adapter operation stands
    loc,        \* the locals of each caller's current sync_query call
    last,       \* what each caller's last completed sync_query returned and did
    recent,     \* the sync_query that completed last, while nothing has run since
    nops,       \* operations begun so far
    nfaults,    \* failures of the store / the external search so far
    overlap,    \* whether two sync_query calls have been in progress at once
    call,       \* the last direct call of a normalizer or store function, or
                \* the last adapter operation other than sync_query
    env,        \* which of SUPABASE_URL / SUPABASE_ANON_KEY the environment has
    supabase_client, \* database.py's module-level _supabase_client
    conn        \* how often get_supabase has read the environment and has
                \* created a client so far

vars == <<items, settings, logs, market, now, enabled, pc, loc, last, recent,
          nops, nfaults, overlap, call, env, supabase_client, conn>>

\* Python's None where a string is expected (no string of the model has a
\* character "None"), and where a list of strings is expected.
None == <<"None">>
NoneList == <<None>>

\* Python's None where a row (a dict) is expected: an optional row is a
\* sequence of no or one row.
NoRow == <<>>

----------------------------------------------------------------------------
\* Bounds of the model.

\* longest brand string given to generate_sku
MaxBrandLen == 4
\* longest title given to can_import_item directly
MaxTitleLen == 3
\* longest ban-word given to can_import_item directly
MaxWordLen == 1
\* longest ban-word list given to can_import_item directly
MaxBanwords == 2
\* most listings one external search returns
MaxFetch == 2
\* most adapter / store operations begun in one behaviour
MaxOps == 2
\* most store or search failures in one behaviour
MaxFaults == 1

----------------------------------------------------------------------------
\* Strings.

Min(a, b) == IF a < b THEN a ELSE b

\* str.lower() on one character.
LowerChar(c) ==
    CASE c = "A" -> "a"
      [] c = "B" -> "b"
      [] c = "E" -> "e"
      [] c = "F" -> "f"
      [] c = "I" -> "i"
      [] c = "K" -> "k"
      [] c = "N" -> "n"
      [] c = "S" -> "s"
      [] OTHER -> c

\* str.upper() on one character.
UpperChar(c) ==
    CASE c = "a" -> "A"
      [] c = "b" -> "B"
      [] c = "e" -> "E"
      [] c = "f" -> "F"
      [] c = "i" -> "I"
      [] c = "k" -> "K"
      [] c = "n" -> "N"
      [] c = "s" -> "S"
      [] OTHER -> c

\* s.lower()
Lower(s) == [k \in 1..Len(s) |-> LowerChar(s[k])]

\* s.upper()
Upper(s) == [k \in 1..Len(s) |-> UpperChar(s[k])]

\* s[:n]
Prefix(s, n) == SubSeq(s, 1, Min(n, Len(s)))

\* s.replace(" ", "")
RECURSIVE RemoveSpaces(_)
RemoveSpaces(s) ==
    IF s = <<>> THEN <<>>
    ELSE IF Head(s) = " " THEN RemoveSpaces(Tail(s))
    ELSE <<Head(s)>> \o RemoveSpaces(Tail(s))

\* needle in hay, scanning the offsets from k on
RECURSIVE FindFrom(_, _, _)
FindFrom(hay, needle, k) ==
    IF k + Len(needle) - 1 > Len(hay) THEN FALSE
    ELSE IF SubSeq(hay, k, k + Len(needle) - 1) = needle THEN TRUE
    ELSE FindFrom(hay, needle, k + 1)

\* Python's  needle in hay  on strings
StrIn(needle, hay) == FindFrom(hay, needle, 1)

\* s.strip(): leading and trailing blanks removed
RECURSIVE LStrip(_)
LStrip(s) == IF s # <<>> /\ Head(s) = " " THEN LStrip(Tail(s)) ELSE s

RECURSIVE RStrip(_)
RStrip(s) ==
    IF s # <<>> /\ s[Len(s)] = " " THEN RStrip(SubSeq(s, 1, Len(s) - 1)) ELSE s

Strip(s) == RStrip(LStrip(s))

\* the delimiter of the ban-word setting
Delim == <<"|", "|", "|">>

\* s.split('|||'): left to right, non-overlapping; cur is the piece being read
RECURSIVE SplitFrom(_, _)
SplitFrom(s, cur) ==
    IF s = <<>> THEN <<cur>>
    ELSE IF Len(s) >= Len(Delim) /\ SubSeq(s, 1, Len(Delim)) = Delim
         THEN <<cur>> \o SplitFrom(SubSeq(s, Len(Delim) + 1, Len(s)), <<>>)
    ELSE SplitFrom(Tail(s), Append(cur, Head(s)))

Split(s) == SplitFrom(s, <<>>)

\* str() of a small natural number (an external item id, a timestamp)
DigitOf(n) ==
    CASE n = 0 -> "0" [] n = 1 -> "1" [] n = 2 -> "2" [] n = 3 -> "3" [] n = 4 -> "4"
      [] n = 5 -> "5" [] n = 6 -> "6" [] n = 7 -> "7" [] n = 8 -> "8" [] OTHER -> "9"
RECURSIVE StrOfInt(_)
StrOfInt(n) == IF n < 10 THEN <<DigitOf(n)>> ELSE Append(StrOfInt(n \div 10), DigitOf(n % 10))

----------------------------------------------------------------------------
\* VintedNormalizer (normalizer.py).

VINT == <<"V", "I", "N", "T">>

\* `if brand:` -- None and the empty string are both falsy
Truthy(x) == x # None /\ x # <<>>

\* mutant of GenerateSku: spaces removed before the slice instead of after
GenerateSkuStripFirst(vinted_item_id, brand) ==
    IF Truthy(brand)
    THEN VINT \o <<"-">> \o Upper(Prefix(RemoveSpaces(brand), 3)) \o <<"-">> \o vinted_item_id
    ELSE VINT \o <<"-">> \o vinted_item_id

\* VintedNormalizer.generate_sku
GenerateSku(vinted_item_id, brand) ==
    LET prefix == IF Truthy(brand)
                  THEN VINT \o <<"-">> \o RemoveSpaces(Upper(Prefix(brand, 3)))
                  ELSE VINT
    IN  prefix \o <<"-">> \o vinted_item_id

\* `if banwords:` -- None and the empty list are both falsy
TruthyList(l) == l # NoneList /\ l # <<>>

\* the loop of can_import_item over the ban-words: the position of the first
\* word found in the title, 0 when the loop ends without one
RECURSIVE FirstBanword(_, _, _)
FirstBanword(title_lower, banwords, k) ==
    IF k > Len(banwords) THEN 0
    ELSE IF StrIn(Lower(banwords[k]), title_lower) THEN k
    ELSE FirstBanword(title_lower, banwords, k + 1)

\* what can_import_item gives back: the pair, or the exception it raised
Verdict(should_import, reason) ==
    [raised |-> FALSE, should_import |-> should_import, reason |-> reason]
Raised == [raised |-> TRUE, should_import |-> FALSE, reason |-> None]

\* f"Title contains banword: {word}"
BanReason(word) == <<"T", "i", "t", "l", "e", " ", "c", "o", "n", "t", "a", "i", "n", "s",
                     " ", "b", "a", "n", "w", "o", "r", "d", ":", " ">> \o word

\* mutant of CanImportItem: the title is compared without lower-casing it
CanImportItemCaseSensitive(title, banwords) ==
    IF TruthyList(banwords)
    THEN IF title = None THEN Raised
         ELSE LET hit == FirstBanword(title, banwords, 1)
              IN  IF hit # 0 THEN Verdict(FALSE, BanReason(banwords[hit]))
                  ELSE Verdict(TRUE, None)
    ELSE Verdict(TRUE, None)

\* VintedNormalizer.can_import_item on the item's title; it raises when the
\* title is None (None.lower()) and there are ban-words to look for
CanImportItem(title, banwords) ==
    IF TruthyList(banwords)
    THEN IF title = None THEN Raised
         ELSE LET hit == FirstBanword(Lower(title), banwords, 1)
              IN  IF hit # 0 THEN Verdict(FALSE, BanReason(banwords[hit]))
                  ELSE Verdict(TRUE, None)
    ELSE Verdict(TRUE, None)

\* float(price) of a price given as a string of digits (whole units), in
\* hundredths; -1 when float() raises
Digits == {DigitOf(n) : n \in 0..9}
DigitVal(c) == IF c \in Digits THEN CHOOSE n \in 0..9 : DigitOf(n) = c ELSE 0
RECURSIVE DecVal(_)
DecVal(s) == IF s = <<>> THEN 0 ELSE 10 * DecVal(SubSeq(s, 1, Len(s) - 1)) + DigitVal(s[Len(s)])
Float(s) ==
    IF s # <<>> /\ \A k \in 1..Len(s) : s[k] \in Digits THEN 100 * DecVal(s) ELSE -1

\* mutant of FeesEstimate: one per cent of the price
FeesEstimateOnePercent(price) == price \div 100

\* round(price * 0.10, 2), prices and fees in hundredths; ties go to even
FeesEstimate(price) ==
    LET q == price \div 10
        r == price % 10
    IN  IF r > 5 \/ (r = 5 /\ q % 2 = 1) THEN q + 1 ELSE q

\* mutant of NormalizeItem: the query id is not passed on to the row
NormalizeItemNoQuery(vinted_item, query_id) ==
    IF Float(vinted_item.price) < 0 THEN NoRow
    ELSE <<[sku              |-> GenerateSku(StrOfInt(vinted_item.id), vinted_item.brand_title),
          item_name        |-> vinted_item.title,
          condition        |-> "Good",
          brand            |-> IF Truthy(vinted_item.brand_title)
                               THEN vinted_item.brand_title
                               ELSE <<"U", "n", "k", "n", "o", "w", "n">>,
          platforms        |-> <<"Vinted">>,
          listing_status   |-> "Draft",
          fees_estimate    |-> FeesEstimate(Float(vinted_item.price)),
          shipping_paid_by |-> "Buyer",
          shipping_cost    |-> 0,
          sale_price       |-> Float(vinted_item.price),
          photos           |-> IF Truthy(vinted_item.photo)
                               THEN <<vinted_item.photo>> ELSE <<>>,
          vinted_item_id   |-> StrOfInt(vinted_item.id),
          vinted_query_id  |-> 0]>>

\* VintedNormalizer.normalize_item: the row for create_item, or no row when the
\* mapping raises (float() of a price that is no number)
NormalizeItem(vinted_item, query_id) ==
    IF Float(vinted_item.price) < 0 THEN NoRow
    ELSE <<[sku              |-> GenerateSku(StrOfInt(vinted_item.id), vinted_item.brand_title),
          item_name        |-> vinted_item.title,
          condition        |-> "Good",
          brand            |-> IF Truthy(vinted_item.brand_title)
                               THEN vinted_item.brand_title
                               ELSE <<"U", "n", "k", "n", "o", "w", "n">>,
          platforms        |-> <<"Vinted">>,
          listing_status   |-> "Draft",
          fees_estimate    |-> FeesEstimate(Float(vinted_item.price)),
          shipping_paid_by |-> "Buyer",
          shipping_cost    |-> 0,
          sale_price       |-> Float(vinted_item.price),
          photos           |-> IF Truthy(vinted_item.photo)
                               THEN <<vinted_item.photo>> ELSE <<>>,
          vinted_item_id   |-> StrOfInt(vinted_item.id),
          vinted_query_id  |-> query_id]>>

----------------------------------------------------------------------------
\* The remote store (database.py).  Every function catches every exception of
\* its store call and gives back a sentinel; ok says whether the call went
\* through.

\* _supabase_client: None, or the client create_client gave
NoClient == "None"
TheClient == "client"

\* the environment with both values, as every adapter needs it to have read a
\* setting at construction
FullEnv == [url |-> TRUE, key |-> TRUE]

\* `if not url or not key:` (line 26)
ConfigMissing == ~env.url \/ ~env.key

\* get_supabase: the client it gives and leaves in _supabase_client, or the
\* exception of line 27
GetSupabase ==
    IF supabase_client # NoClient
    THEN [raised |-> FALSE, client |-> supabase_client]
    ELSE IF ConfigMissing
    THEN [raised |-> TRUE, client |-> NoClient]
    ELSE [raised |-> FALSE, client |-> TheClient]

\* no get_supabase call yet; and the one call of an adapter's construction
\* (the settings read of _check_enabled) in a full environment
NoConn == [env_reads |-> 0, clients_created |-> 0]
ConnAtConstruction == [env_reads |-> 1, clients_created |-> 1]

\* lines 22-29: without a client the two values are read from the environment
\* (lines 23-24), and a client is created when both are there (line 29)
ConnAfter ==
    IF supabase_client # NoClient THEN conn
    ELSE [env_reads |-> conn.env_reads + 1,
          clients_created |-> conn.clients_created + (IF ConfigMissing THEN 0 ELSE 1)]

KeyEnabled == "vinted_integration_enabled"
KeyLastSync == "vinted_last_sync"
KeyBanwords == "banwords"
KeyInterval == "vinted_sync_interval"
SettingKeys == {KeyEnabled, KeyLastSync, KeyBanwords, KeyInterval}

\* get_setting: the value, None when there is no row or the call failed
GetSetting(key, ok) == IF ok THEN settings[key] ELSE None

\* set_setting: the table after the upsert
SetSetting(key, value, ok) == IF ok THEN [settings EXCEPT ![key] = value] ELSE settings

\* the rows .eq('vinted_item_id', vinted_item_id) selects
RowsByVintedId(vinted_item_id) ==
    SelectSeq(items, LAMBDA r : r.vinted_item_id = vinted_item_id)

\* mutant of GetItemByVintedId: the filter matches no row
GetItemByVintedIdNever(vinted_item_id, ok) == NoRow

\* get_item_by_vinted_id: a matching row, no row when there is none or the
\* call failed
GetItemByVintedId(vinted_item_id, ok) ==
    IF ok /\ RowsByVintedId(vinted_item_id) # <<>>
    THEN <<Head(RowsByVintedId(vinted_item_id))>>
    ELSE NoRow

\* mutant of CreateItem: an insert that replaces the row of the same external id
CreateItemUpsert(item_data, ok) ==
    IF ok /\ item_data.vinted_item_id # None
          /\ RowsByVintedId(item_data.vinted_item_id) # <<>>
    THEN [items |-> items, ret |-> <<Head(RowsByVintedId(item_data.vinted_item_id))>>]
    ELSE IF ok THEN [items |-> Append(items, item_data), ret |-> <<item_data>>]
    ELSE [items |-> items, ret |-> NoRow]

\* create_item: a plain insert; the table after it and the row given back
\* (no row when the call failed)
CreateItem(item_data, ok) ==
    IF ok THEN [items |-> Append(items, item_data), ret |-> <<item_data>>]
    ELSE [items |-> items, ret |-> NoRow]

NoData == [none |-> TRUE]

\* mutant of LogVintedEvent: an upsert on event_type
LogVintedEventUpsert(event_type, status, message, data, ok) ==
    LET row == [event_type |-> event_type, status |-> status,
                message |-> message, data |-> data]
        same == {k \in 1..Len(logs) : logs[k].event_type = event_type}
    IN  IF ~ok THEN logs
        ELSE IF same # {} THEN [logs EXCEPT ![CHOOSE k \in same : TRUE] = row]
        ELSE Append(logs, row)

\* log_vinted_event: the table after the insert
LogVintedEvent(event_type, status, message, data, ok) ==
    IF ok THEN Append(logs, [event_type |-> event_type, status |-> status,
                             message |-> message, data |-> data])
    ELSE logs

\* mutant of TryExcept: the handler lets the exception through
TryExceptReraise(failed, value, sentinel) ==
    [raised |-> failed, ret |-> IF failed THEN sentinel ELSE value]

\* try: ... return value / except Exception as e: ... return sentinel -- the
\* shape of every function of database.py: what the caller gets, and whether an
\* exception reaches it
TryExcept(failed, value, sentinel) ==
    [raised |-> FALSE, ret |-> IF failed THEN sentinel ELSE value]

\* whether a store function whose call failed raises to its caller
DbRaises(ok) == TryExcept(~ok, TRUE, FALSE).raised

----------------------------------------------------------------------------
\* The environment: callers, the external marketplace, store failures.

Procs == {1, 2}
QueryIds == {1, 2}

TrueStr == <<"t", "r", "u", "e">>
FalseStr == <<"f", "a", "l", "s", "e">>

Nike == <<"N", "i", "k", "e">>

\* the listings the external search can return: (id, title, price, brand_title,
\* photo) as the search library exposes them
Listings ==
    { [id |-> 1, title |-> <<"A", "b">>, price |-> <<"2", "0">>,
       brand_title |-> Nike, photo |-> <<"p">>],
      [id |-> 2, title |-> <<"b">>, price |-> <<"2", "0">>,
       brand_title |-> <<>>, photo |-> None],
      [id |-> 2, title |-> <<"b">>, price |-> None,
       brand_title |-> None, photo |-> None],
      [id |-> 1, title |-> None, price |-> <<"1">>,
       brand_title |-> None, photo |-> None] }

RECURSIVE SeqsUpTo(_, _)
SeqsUpTo(S, n) ==
    IF n = 0 THEN {<<>>}
    ELSE SeqsUpTo(S, n - 1) \cup
         {Append(q, x) : q \in {t \in SeqsUpTo(S, n - 1) : Len(t) = n - 1}, x \in S}

SearchResults == SeqsUpTo(Listings, MaxFetch)

\* the values the ban-word setting is given
BanwordSettings == {None, <<" ", "A", "|", "|", "|", " ">>}

\* the business keys typed in for items entered by hand (seed_data.py uses
\* keys of the generated form, 'VINT-NIK-001')
ManualSkus == { VINT \o <<"-", "N", "I", "K", "-", "1">>, <<"S", "K", "U">> }

\* whether a store / search call may fail now
Outcomes == IF nfaults < MaxFaults THEN {TRUE, FALSE} ELSE {TRUE}
Fault(ok) == IF ok THEN nfaults ELSE nfaults + 1

----------------------------------------------------------------------------
\* VintedAdapter (adapter.py).

\* _check_enabled at construction
CheckEnabled(ok) == GetSetting(KeyEnabled, ok) = TrueStr

\* mutant of ParseBanwords: blank entries are kept
ParseBanwordsKeepBlank(banwords_str) ==
    LET parts == Split(IF Truthy(banwords_str) THEN banwords_str ELSE <<>>)
    IN  [k \in 1..Len(parts) |-> Lower(Strip(parts[k]))]

\* banwords = [w.strip().lower() for w in banwords_str.split('|||') if w.strip()]
ParseBanwords(banwords_str) ==
    LET parts == Split(IF Truthy(banwords_str) THEN banwords_str ELSE <<>>)
        kept  == SelectSeq(parts, LAMBDA w : Strip(w) # <<>>)
    IN  [k \in 1..Len(kept) |-> Lower(Strip(kept[k]))]

DisabledResult ==
    [success |-> FALSE, imported |-> 0, skipped |-> 0, errors |-> 0,
     items |-> <<>>, message |-> "Integration disabled"]

NewResult ==
    [success |-> TRUE, imported |-> 0, skipped |-> 0, errors |-> 0,
     items |-> <<>>, message |-> ""]

\* a sync_query that completed: what it fetched, returned, called and left in
\* inventory; valid while no other operation has begun since
NoPrev ==
    [valid |-> FALSE, fetched |-> <<>>, result |-> DisabledResult, calls |-> <<>>,
     items |-> <<>>]

\* the same with what that call had for its own predecessor, and how it fared
\* item by item
NoRecent ==
    [valid |-> FALSE, fetched |-> <<>>, result |-> DisabledResult, calls |-> <<>>,
     items |-> <<>>, outcomes |-> <<>>, prev |-> NoPrev]

\* the locals of a caller that is in no sync_query call
IdleLoc ==
    [query_id |-> 0, vinted_items |-> <<>>, banwords |-> <<>>, idx |-> 0,
     result |-> NewResult, pending |-> NoRow, created |-> NoRow,
     calls |-> <<>>, outcomes |-> <<>>, prev |-> NoPrev, stamp |-> None]

\* what a caller has from its last completed sync_query: nothing yet
NoLast == [returned |-> FALSE, query_id |-> 0, enabled |-> FALSE, fetched |-> <<>>,
           result |-> NewResult, calls |-> <<>>, outcomes |-> <<>>, prev |-> NoPrev,
           stamp |-> None, raised |-> FALSE]

\* one store / search call as the call made and whether it went through
Call(fn, ok) == [fn |-> fn, ok |-> ok]

\* what happened to one fetched item: lookup is "none" (not reached), "found",
\* "absent" or "failed"
Outcome(id, outcome, lookup) == [id |-> id, outcome |-> outcome, lookup |-> lookup]

\* the locals of every running sync_query with another operation having begun
Disturbed(l, p) ==
    [q \in Procs |-> IF q = p THEN l[q] ELSE [l[q] EXCEPT !.prev = NoPrev]]

\* mutant of SyncDisabled: the flag is not looked at
SyncDisabledNever(p) == FALSE

\* mutant of SyncDisabled: the persisted setting is read again
SyncDisabledRereads(p) == GetSetting(KeyEnabled, TRUE) # TrueStr

\* `if not self.enabled:` (line 82)
SyncDisabled(p) == ~enabled[p]

\* mutant of AfterSearch: a failed search is taken for an empty result
AfterSearchSwallowed(ok) == "banwords"

\* where the code goes after the search: on, or to the handler of line 156
AfterSearch(ok) == IF ok THEN "banwords" ELSE "log_error"

\* whether some caller other than p is inside sync_query
OthersRunning(p) == \E q \in Procs \ {p} : pc[q] # "idle"

\* the end of one iteration of the loop over vinted_items
AfterItem(l) ==
    [l EXCEPT !.idx = l.idx + 1, !.pending = NoRow, !.created = NoRow]
\* mutant of AfterLoop: the stamp is skipped when nothing was imported
AfterLoopIfImported(l) == IF l.result.imported > 0 THEN "stamp" ELSE "log_sync"

\* where the code goes when the loop is over (line 145)
AfterLoop(l) == "stamp"

\* mutant of PcAfterItem: an item counted as an error ends the loop
PcAfterItemAbort(l) ==
    IF l.idx > Len(l.vinted_items) \/ l.result.errors > 0 THEN AfterLoop(l) ELSE "item"

\* `continue` / the end of the loop body (lines 97, 105, 112, 120, 143), l
\* being the locals with idx moved on: the next item, or the code after the loop
PcAfterItem(l) == IF l.idx > Len(l.vinted_items) THEN AfterLoop(l) ELSE "item"

\* mutant of Count: the counter is left as it is
CountForgotten(l, key, id, outcome, lookup) ==
    [l EXCEPT !.outcomes = Append(l.outcomes, Outcome(id, outcome, lookup))]

\* result[key] += 1
Count(l, key, id, outcome, lookup) ==
    [l EXCEPT !.result[key] = l.result[key] + 1,
              !.outcomes = Append(l.outcomes, Outcome(id, outcome, lookup))]

\* what a finished sync_query leaves with its caller; an exception reaches
\* the caller if the log call of the handler (line 162), which no try
\* encloses, raises
Returned(l, p, result, calls) ==
    [returned |-> TRUE, query_id |-> l.query_id, enabled |-> enabled[p],
     fetched |-> l.vinted_items, result |-> result, calls |-> calls,
     outcomes |-> l.outcomes, prev |-> l.prev,
     stamp |-> l.stamp,
     raised |-> /\ calls # <<>>
                /\ calls[Len(calls)].fn = "log_error"
                /\ DbRaises(calls[Len(calls)].ok)]

\* sync_query while disabled (lines 82-84): the disabled result, nothing else
SyncQueryDisabled(p) ==
    /\ pc[p] = "idle"
    /\ nops < MaxOps
    /\ SyncDisabled(p)
    /\ \E query_id \in QueryIds :
          last' = [last EXCEPT ![p] =
                      Returned([IdleLoc EXCEPT !.query_id = query_id], p,
                               DisabledResult, <<>>)]
    /\ nops' = nops + 1
    /\ now' = now + 1
    /\ UNCHANGED <<env, supabase_client, conn, items, settings, logs, market, enabled, pc, loc, recent,
                   nfaults, overlap, call>>

\* sync_query while enabled, up to the external search (lines 86-91); a search
\* that raises leads to the handler of line 156
SyncQuerySearch(p) ==
    /\ pc[p] = "idle"
    /\ nops < MaxOps
    /\ ~SyncDisabled(p)
    /\ \E query_id \in QueryIds, ok \in Outcomes :
          /\ loc' = [Disturbed(loc, p) EXCEPT ![p] =
                        [IdleLoc EXCEPT
                            !.query_id = query_id,
                            !.vinted_items = IF ok THEN market ELSE <<>>,
                            !.result = IF ok THEN NewResult
                                       ELSE [NewResult EXCEPT !.success = FALSE,
                                                              !.message = "search failed"],
                            !.calls = <<Call("search", ok)>>,
                            !.prev = [valid |-> recent.valid, fetched |-> recent.fetched,
                                      result |-> recent.result, calls |-> recent.calls,
                                      items |-> recent.items]]]
          /\ pc' = [pc EXCEPT ![p] = AfterSearch(ok)]
          /\ nfaults' = Fault(ok)
    /\ nops' = nops + 1
    /\ now' = now + 1
    /\ recent' = NoRecent
    /\ last' = [last EXCEPT ![p] = NoLast]
    /\ overlap' = (overlap \/ OthersRunning(p))
    /\ UNCHANGED <<env, supabase_client, conn, items, settings, logs, market, enabled, call>>

\* lines 93-95: the ban-word list is read and split; then the loop begins
LoadBanwords(p) ==
    /\ pc[p] = "banwords"
    /\ \E ok \in Outcomes :
          /\ loc' = [loc EXCEPT ![p] =
                        [@ EXCEPT !.banwords = ParseBanwords(GetSetting(KeyBanwords, ok)),
                                  !.idx = 1,
                                  !.calls = Append(@, Call("get_setting", ok))]]
          /\ nfaults' = Fault(ok)
    /\ pc' = [pc EXCEPT ![p] = IF Len(loc[p].vinted_items) = 0 THEN AfterLoop(loc[p]) ELSE "item"]
    /\ UNCHANGED <<env, supabase_client, conn, items, settings, logs, market, now, enabled, last, recent, nops, overlap, call>>

\* lines 98-105 and 141-143: can_import_item rejects the item, or raises; no
\* store call is made
CheckItemRejected(p) ==
    /\ pc[p] = "item"
    /\ LET l == loc[p]
           vinted_item == l.vinted_items[l.idx]
           verdict == CanImportItem(vinted_item.title, l.banwords)
       IN  /\ verdict.raised \/ ~verdict.should_import
           /\ loc' = [loc EXCEPT ![p] =
                         AfterItem(IF verdict.raised
                                   THEN Count(l, "errors", vinted_item.id, "raised", "none")
                                   ELSE Count(l, "skipped", vinted_item.id, "banned", "none"))]
           /\ pc' = [pc EXCEPT ![p] = PcAfterItem(loc'[p])]
    /\ UNCHANGED <<env, supabase_client, conn, items, settings, logs, market, now, enabled, last, recent,
                   nops, nfaults, overlap, call>>

\* lines 107-120: the existence lookup, then the normalization
CheckItemLookup(p) ==
    /\ pc[p] = "item"
    /\ LET l == loc[p]
           vinted_item == l.vinted_items[l.idx]
           verdict == CanImportItem(vinted_item.title, l.banwords)
       IN  /\ ~verdict.raised /\ verdict.should_import
           /\ \E ok \in Outcomes :
                LET existing == GetItemByVintedId(StrOfInt(vinted_item.id), ok)
                    normalized_item == NormalizeItem(vinted_item, l.query_id)
                    lookup == IF ~ok THEN "failed"
                              ELSE IF existing # NoRow THEN "found" ELSE "absent"
                    l1 == [l EXCEPT !.calls = Append(@, Call("get_item_by_vinted_id", ok))]
                IN  /\ nfaults' = Fault(ok)
                    /\ IF existing # NoRow
                       THEN /\ loc' = [loc EXCEPT ![p] =
                                  AfterItem(Count(l1, "skipped", vinted_item.id, "exists", lookup))]
                            /\ pc' = [pc EXCEPT ![p] = PcAfterItem(loc'[p])]
                       ELSE IF normalized_item = NoRow
                       THEN /\ loc' = [loc EXCEPT ![p] =
                                  AfterItem(Count(l1, "errors", vinted_item.id, "not_normalized", lookup))]
                            /\ pc' = [pc EXCEPT ![p] = PcAfterItem(loc'[p])]
                       ELSE /\ loc' = [loc EXCEPT ![p] =
                                  [l1 EXCEPT !.pending = normalized_item,
                                             !.outcomes = Append(@, Outcome(vinted_item.id, "pending", lookup))]]
                            /\ pc' = [pc EXCEPT ![p] = "create"]
    /\ UNCHANGED <<env, supabase_client, conn, items, settings, logs, market, now, enabled, last, recent, nops, overlap, call>>

\* the last entry of the outcomes, settled
Settle(l, outcome) ==
    [l EXCEPT !.outcomes[Len(l.outcomes)].outcome = outcome]

\* lines 122-128 and 137-139: the insert and the counting of its result
CreateItemStep(p) ==
    /\ pc[p] = "create"
    /\ \E ok \in Outcomes :
          LET l == loc[p]
              r == CreateItem(l.pending[1], ok)
              l1 == [l EXCEPT !.calls = Append(@, Call("create_item", ok))]
          IN  /\ nfaults' = Fault(ok)
              /\ items' = r.items
              /\ IF r.ret # NoRow
                 THEN /\ loc' = [loc EXCEPT ![p] =
                            [Settle(l1, "imported") EXCEPT
                                !.result.imported = l.result.imported + 1,
                                !.result.items = Append(l.result.items, r.ret[1]),
                                !.created = r.ret]]
                      /\ pc' = [pc EXCEPT ![p] = "log_item"]
                 ELSE /\ loc' = [loc EXCEPT ![p] =
                            AfterItem([Settle(l1, "not_created") EXCEPT
                                          !.result.errors = l.result.errors + 1])]
                      /\ pc' = [pc EXCEPT ![p] = PcAfterItem(loc'[p])]
    /\ UNCHANGED <<env, supabase_client, conn, settings, logs, market, now, enabled, last, recent, nops, overlap, call>>

\* lines 130-136: the import is logged
LogItem(p) ==
    /\ pc[p] = "log_item"
    /\ \E ok \in Outcomes :
          LET l == loc[p]
              vinted_item == l.vinted_items[l.idx]
          IN  /\ nfaults' = Fault(ok)
              /\ logs' = LogVintedEvent("item_imported", "Success",
                            <<"Imported item ", vinted_item.title>>,
                            [vinted_id |-> StrOfInt(vinted_item.id), sku |-> l.created[1].sku],
                            ok)
              /\ loc' = [loc EXCEPT ![p] =
                            AfterItem([l EXCEPT !.calls = Append(@, Call("log_vinted_event", ok))])]
              /\ pc' = [pc EXCEPT ![p] = PcAfterItem(loc'[p])]
    /\ UNCHANGED <<env, supabase_client, conn, items, settings, market, now, enabled, last, recent, nops, overlap, call>>

\* lines 145-146: the last-sync setting is stamped
Stamp(p) ==
    /\ pc[p] = "stamp"
    /\ \E ok \in Outcomes :
          /\ nfaults' = Fault(ok)
          /\ settings' = SetSetting(KeyLastSync, StrOfInt(now), ok)
          /\ loc' = [loc EXCEPT ![p] = [@ EXCEPT !.calls = Append(@, Call("set_setting", ok)),
                                                  !.stamp = StrOfInt(now)]]
    /\ pc' = [pc EXCEPT ![p] = "log_sync"]
    /\ UNCHANGED <<env, supabase_client, conn, items, logs, market, now, enabled, last, recent, nops, overlap, call>>

\* f"Synced query {query_id}: {imported} imported, {skipped} skipped, {errors} errors"
SyncMessage(query_id, result) ==
    <<"Synced query ", query_id, result.imported, result.skipped, result.errors>>

\* the caller is back in no call, and what completed is the most recent sync
Return(p, result, calls) ==
    /\ last' = [last EXCEPT ![p] = Returned(loc[p], p, result, calls)]
    /\ loc' = [loc EXCEPT ![p] = IdleLoc]
    /\ pc' = [pc EXCEPT ![p] = "idle"]

\* lines 148-154 and 169: the summary is logged and the result returned
LogSync(p) ==
    /\ pc[p] = "log_sync"
    /\ \E ok \in Outcomes :
          LET l == loc[p]
              calls == Append(l.calls, Call("log_sync", ok))
          IN  /\ nfaults' = Fault(ok)
              /\ logs' = LogVintedEvent("query_sync", "Success",
                            SyncMessage(l.query_id, l.result),
                            [query_id |-> l.query_id, results |-> l.result], ok)
              /\ Return(p, l.result, calls)
              /\ recent' = [valid |-> TRUE, fetched |-> l.vinted_items,
                            result |-> l.result, calls |-> calls, items |-> items,
                            outcomes |-> l.outcomes, prev |-> l.prev]
    /\ UNCHANGED <<env, supabase_client, conn, items, settings, market, now, enabled, nops, overlap, call>>

\* lines 156-169: the handler of a failed search logs the error and returns
LogError(p) ==
    /\ pc[p] = "log_error"
    /\ \E ok \in Outcomes :
          LET l == loc[p]
              calls == Append(l.calls, Call("log_error", ok))
          IN  /\ nfaults' = Fault(ok)
              /\ logs' = LogVintedEvent("query_sync", "Error",
                            <<"Failed to sync query ", l.query_id, l.result.message>>,
                            [query_id |-> l.query_id, error |-> l.result.message], ok)
              /\ Return(p, l.result, calls)
    /\ UNCHANGED <<env, supabase_client, conn, items, settings, market, now, enabled, recent, nops, overlap, call>>

\* an item entered by hand (create_item called as seed_data.py and the
\* dashboard call it): no external id
ManualCreateItem ==
    /\ nops < MaxOps
    /\ \E sku \in ManualSkus, ok \in Outcomes :
          /\ items' = CreateItem(
                [sku |-> sku, item_name |-> <<"b">>, condition |-> "Good",
                 brand |-> Nike, platforms |-> <<"Vinted">>, listing_status |-> "Listed",
                 fees_estimate |-> 0, shipping_paid_by |-> "Buyer", shipping_cost |-> 0,
                 sale_price |-> 0, photos |-> <<>>, vinted_item_id |-> None,
                 vinted_query_id |-> 0], ok).items
          /\ nfaults' = Fault(ok)
    /\ nops' = nops + 1
    /\ now' = now + 1
    /\ recent' = NoRecent
    /\ loc' = [q \in Procs |-> [loc[q] EXCEPT !.prev = NoPrev]]
    /\ UNCHANGED <<env, supabase_client, conn, settings, logs, market, enabled, pc, last, overlap, call>>

NoCall == [fn |-> "none"]

Init ==
    /\ items = <<>>
    /\ logs = <<>>
    /\ market \in SearchResults
    /\ now = 0
    /\ \E e \in {TrueStr, FalseStr}, b \in BanwordSettings :
          settings = [k \in SettingKeys |->
                         IF k = KeyEnabled THEN e ELSE IF k = KeyBanwords THEN b ELSE None]
    /\ enabled \in [Procs -> {CheckEnabled(TRUE), CheckEnabled(FALSE)}]
    /\ pc = [p \in Procs |-> "idle"]
    /\ loc = [p \in Procs |-> IdleLoc]
    /\ last = [p \in Procs |-> NoLast]
    /\ recent = NoRecent
    /\ nops = 0
    /\ nfaults = 0
    /\ overlap = FALSE
    /\ call = NoCall
    /\ env = FullEnv
    /\ supabase_client = TheClient
    /\ conn = ConnAtConstruction

Next ==
    \/ \E p \in Procs : SyncQueryDisabled(p)
    \/ \E p \in Procs : SyncQuerySearch(p)
    \/ \E p \in Procs : LoadBanwords(p)
    \/ \E p \in Procs : CheckItemRejected(p)
    \/ \E p \in Procs : CheckItemLookup(p)
    \/ \E p \in Procs : CreateItemStep(p)
    \/ \E p \in Procs : LogItem(p)
    \/ \E p \in Procs : Stamp(p)
    \/ \E p \in Procs : LogSync(p)
    \/ \E p \in Procs : LogError(p)
    \/ ManualCreateItem

Spec == Init /\ [][Next]_vars

----------------------------------------------------------------------------
\* The normalizer's functions called directly, on every input within the bounds.

BrandChars == {"n", "K", " "}
TitleChars == {"a", "A", "b"}

BrandInputs == SeqsUpTo(BrandChars, MaxBrandLen) \cup {None}
IdInputs == {<<"7">>, <<"4", "2">>}
TitleInputs == SeqsUpTo(TitleChars, MaxTitleLen)
WordInputs == SeqsUpTo(TitleChars, MaxWordLen)
BanwordInputs == SeqsUpTo(WordInputs, MaxBanwords) \cup {NoneList}

CallGenerateSku ==
    /\ call = NoCall
    /\ \E i \in IdInputs, b \in BrandInputs :
          call' = [fn |-> "generate_sku", vinted_item_id |-> i, brand |-> b,
                   ret |-> GenerateSku(i, b)]
    /\ UNCHANGED <<env, supabase_client, conn, items, settings, logs, market, now, enabled, pc, loc, last, recent,
                   nops, nfaults, overlap>>

CallCanImportItem ==
    /\ call = NoCall
    /\ \E t \in TitleInputs, bw \in BanwordInputs :
          call' = [fn |-> "can_import_item", title |-> t, banwords |-> bw,
                   ret |-> CanImportItem(t, bw)]
    /\ UNCHANGED <<env, supabase_client, conn, items, settings, logs, market, now, enabled, pc, loc, last, recent,
                   nops, nfaults, overlap>>

InitNormalizer ==
    /\ items = <<>>
    /\ logs = <<>>
    /\ market = <<>>
    /\ now = 0
    /\ settings = [k \in SettingKeys |-> None]
    /\ enabled = [p \in Procs |-> FALSE]
    /\ pc = [p \in Procs |-> "idle"]
    /\ loc = [p \in Procs |-> IdleLoc]
    /\ last = [p \in Procs |-> NoLast]
    /\ recent = NoRecent
    /\ nops = 0
    /\ nfaults = 0
    /\ overlap = FALSE
    /\ call = NoCall
    /\ env = FullEnv
    /\ supabase_client = TheClient
    /\ conn = ConnAtConstruction

NextNormalizer == CallGenerateSku \/ CallCanImportItem

SpecNormalizer == InitNormalizer /\ [][NextNormalizer]_vars

----------------------------------------------------------------------------
\* The functions of database.py called directly, as the dashboard calls them.

\* whether the body of a store function goes through: the client is there
\* (get_supabase did not raise) and the store call did not fail
Went(ok) == ok /\ ~GetSupabase.raised

\* the record of one direct call
DbCall(fn, arg, ok, t) ==
    [fn |-> fn, arg |-> arg, config_missing |-> GetSupabase.raised,
     failed |-> ~Went(ok), raised |-> t.raised, ret |-> t.ret]

\* a direct call begins: get_supabase is its first statement
DbBegin ==
    /\ nops < MaxOps
    /\ nops' = nops + 1
    /\ now' = now + 1
    /\ supabase_client' = GetSupabase.client
    /\ conn' = ConnAfter
    /\ recent' = NoRecent
    /\ loc' = [q \in Procs |-> [loc[q] EXCEPT !.prev = NoPrev]]

\* the values the dashboard writes to the settings it edits
SettingValues == {TrueStr, FalseStr}

\* get_vinted_logs: the newest events first, `limit` of them at most
DefaultLogLimit == 100
GetVintedLogs(limit) ==
    [k \in 1..Min(limit, Len(logs)) |-> logs[Len(logs) + 1 - k]]

\* item['profit'] or 0, in hundredths; a column the insert left out is null
ProfitValue(r) ==
    IF "profit" \in DOMAIN r /\ r.profit # <<>> THEN r.profit[1] ELSE 0

\* mutant of SumSoldProfit: the profit of every row is added up
RECURSIVE SumAllProfit(_)
SumAllProfit(rows) ==
    IF rows = <<>> THEN 0
    ELSE ProfitValue(Head(rows)) + SumAllProfit(Tail(rows))

\* sum(float(item['profit'] or 0) for item in ... if item['listing_status'] == 'Sold')
RECURSIVE SumSoldProfit(_)
SumSoldProfit(rows) ==
    IF rows = <<>> THEN 0
    ELSE (IF Head(rows).listing_status = "Sold" THEN ProfitValue(Head(rows)) ELSE 0)
         + SumSoldProfit(Tail(rows))

\* sum(1 for item in all_items.data if item['listing_status'] == status)
CountStatus(rows, status) ==
    Len(SelectSeq(rows, LAMBDA r : r.listing_status = status))

\* the mapping get_items_stats gives when its store call fails (line 195)
ZeroStats ==
    [total_items |-> 0, listed |-> 0, sold |-> 0, draft |-> 0, total_profit |-> 0]

\* get_items_stats on the rows the store returned; amounts are in hundredths,
\* which round(total_profit, 2) leaves as they are
GetItemsStats(rows) ==
    [total_items |-> Len(rows),
     listed |-> CountStatus(rows, "Listed"),
     sold |-> CountStatus(rows, "Sold"),
     draft |-> CountStatus(rows, "Draft"),
     total_profit |-> SumSoldProfit(rows)]

DbGetSetting ==
    /\ DbBegin
    /\ \E key \in {KeyEnabled, KeyLastSync}, ok \in Outcomes :
          /\ call' = DbCall("get_setting", key, ok,
                            TryExcept(~Went(ok), GetSetting(key, TRUE), None))
          /\ nfaults' = Fault(ok)
    /\ UNCHANGED <<items, settings, logs, market, enabled, pc, last, overlap, env>>

DbSetSetting ==
    /\ DbBegin
    /\ \E key \in {KeyEnabled}, value \in SettingValues, ok \in Outcomes :
          /\ call' = DbCall("set_setting", <<key, value>>, ok,
                            TryExcept(~Went(ok), TRUE, FALSE))
          /\ settings' = SetSetting(key, value, Went(ok))
          /\ nfaults' = Fault(ok)
    /\ UNCHANGED <<items, logs, market, enabled, pc, last, overlap, env>>

DbGetItemByVintedId ==
    /\ DbBegin
    /\ \E id \in {1}, ok \in Outcomes :
          /\ call' = DbCall("get_item_by_vinted_id", StrOfInt(id), ok,
                            TryExcept(~Went(ok), GetItemByVintedId(StrOfInt(id), TRUE), NoRow))
          /\ nfaults' = Fault(ok)
    /\ UNCHANGED <<items, settings, logs, market, enabled, pc, last, overlap, env>>

\* the rows the dashboard inserts: a listing status and, or not, a profit
ManualRows ==
    { [sku |-> <<"S", "K", "U">>, listing_status |-> "Sold", profit |-> <<1000>>,
       vinted_item_id |-> None],
      [sku |-> <<"S", "K", "U">>, listing_status |-> "Listed",
       vinted_item_id |-> StrOfInt(1)] }

DbCreateItem ==
    /\ DbBegin
    /\ \E item_data \in ManualRows, ok \in Outcomes :
          LET r == CreateItem(item_data, Went(ok))
          IN  /\ call' = DbCall("create_item", item_data, ok,
                                TryExcept(~Went(ok), <<item_data>>, NoRow))
              /\ items' = r.items
              /\ nfaults' = Fault(ok)
    /\ UNCHANGED <<settings, logs, market, enabled, pc, last, overlap, env>>

DbGetItemsStats ==
    /\ DbBegin
    /\ \E ok \in Outcomes :
          /\ call' = DbCall("get_items_stats", items, ok,
                            TryExcept(~Went(ok), GetItemsStats(items), ZeroStats))
          /\ nfaults' = Fault(ok)
    /\ UNCHANGED <<items, settings, logs, market, enabled, pc, last, overlap, env>>

DbLogVintedEvent ==
    /\ DbBegin
    /\ \E status \in {"Success"}, ok \in Outcomes :
          /\ call' = DbCall("log_vinted_event", status, ok,
                            TryExcept(~Went(ok), TRUE, FALSE))
          /\ logs' = LogVintedEvent("manual", status, <<"m">>, NoData, Went(ok))
          /\ nfaults' = Fault(ok)
    /\ UNCHANGED <<items, settings, market, enabled, pc, last, overlap, env>>

DbGetVintedLogs ==
    /\ DbBegin
    /\ \E ok \in Outcomes :
          /\ call' = DbCall("get_vinted_logs", DefaultLogLimit, ok,
                            TryExcept(~Went(ok), GetVintedLogs(DefaultLogLimit), <<>>))
          /\ nfaults' = Fault(ok)
    /\ UNCHANGED <<items, settings, logs, market, enabled, pc, last, overlap, env>>

NextStore ==
    \/ DbGetSetting
    \/ DbSetSetting
    \/ DbGetItemByVintedId
    \/ DbCreateItem
    \/ DbGetItemsStats
    \/ DbLogVintedEvent
    \/ DbGetVintedLogs

\* a process that has made no store call yet, with or without its two
\* environment values
InitStore ==
    /\ items = <<>>
    /\ logs = <<>>
    /\ market = <<>>
    /\ now = 0
    /\ \E e \in {None, TrueStr} :
          settings = [k \in SettingKeys |-> IF k = KeyEnabled THEN e ELSE None]
    /\ enabled = [p \in Procs |-> FALSE]
    /\ pc = [p \in Procs |-> "idle"]
    /\ loc = [p \in Procs |-> IdleLoc]
    /\ last = [p \in Procs |-> NoLast]
    /\ recent = NoRecent
    /\ nops = 0
    /\ nfaults = 0
    /\ overlap = FALSE
    /\ call = NoCall
    /\ env \in [url : BOOLEAN, key : BOOLEAN]
    /\ supabase_client = NoClient
    /\ conn = NoConn

SpecStore == InitStore /\ [][NextStore]_vars

\* the inventory rows get_items_stats is tried on
MaxRows == 4
StatRows ==
    { [listing_status |-> "Listed", profit |-> <<>>],
      [listing_status |-> "Listed", profit |-> <<500>>],
      [listing_status |-> "Sold", profit |-> <<1000>>],
      [listing_status |-> "Sold", profit |-> <<>>],
      [listing_status |-> "Sold", profit |-> <<-250>>],
      [listing_status |-> "Draft", profit |-> <<>>] }

InitStats ==
    /\ items \in SeqsUpTo(StatRows, MaxRows)
    /\ logs = <<>>
    /\ market = <<>>
    /\ now = 0
    /\ settings = [k \in SettingKeys |-> None]
    /\ enabled = [p \in Procs |-> FALSE]
    /\ pc = [p \in Procs |-> "idle"]
    /\ loc = [p \in Procs |-> IdleLoc]
    /\ last = [p \in Procs |-> NoLast]
    /\ recent = NoRecent
    /\ nops = 0
    /\ nfaults = 0
    /\ overlap = FALSE
    /\ call = NoCall
    /\ env = FullEnv
    /\ supabase_client = NoClient
    /\ conn = NoConn

NextStats == DbGetItemsStats

SpecStats == InitStats /\ [][NextStats]_vars

----------------------------------------------------------------------------
\* The other operations of VintedAdapter (adapter.py), and the specification
\* of two adapters and the dashboard's direct store calls side by side.

\* the record of one adapter operation other than sync_query
AdapterCall(fn, p, calls, raised, ret) ==
    [fn |-> fn, p |-> p, calls |-> calls, raised |-> raised, ret |-> ret]

\* an adapter operation begins
AdapterBegin(p) ==
    /\ pc[p] = "idle"
    /\ nops < MaxOps
    /\ nops' = nops + 1
    /\ now' = now + 1
    /\ recent' = NoRecent

\* is_enabled (lines 44-46)
IsEnabled(p) ==
    /\ AdapterBegin(p)
    /\ call' = AdapterCall("is_enabled", p, <<>>, FALSE, enabled[p])
    /\ loc' = Disturbed(loc, p)
    /\ UNCHANGED <<env, supabase_client, conn, items, settings, logs, market, enabled, pc,
                   last, nfaults, overlap>>

\* the outcomes of two store / search calls made in one step
Outcomes2 ==
    { o \in BOOLEAN \X BOOLEAN :
        nfaults + (IF o[1] THEN 0 ELSE 1) + (IF o[2] THEN 0 ELSE 1) <= MaxFaults }
Fault2(o) == nfaults + (IF o[1] THEN 0 ELSE 1) + (IF o[2] THEN 0 ELSE 1)

\* datetime.fromtimestamp(float(last_sync)).isoformat(), None when the value
\* is absent, empty, '0' or no number (lines 56-62)
Sixty == <<"6", "0">>
LastSyncTime(last_sync) ==
    IF Truthy(last_sync) /\ last_sync # <<"0">> /\ Float(last_sync) >= 0
    THEN <<"iso", DecVal(last_sync)>>
    ELSE None

\* get_status (lines 48-68): two settings are read, under no try of its own;
\* the flag is the adapter's
GetStatus(p) ==
    /\ AdapterBegin(p)
    /\ \E o \in Outcomes2 :
          LET last_sync == GetSetting(KeyLastSync, o[1])
              interval == GetSetting(KeyInterval, o[2])
          IN  /\ call' = AdapterCall("get_status", p,
                            <<Call("get_setting", o[1]), Call("get_setting", o[2])>>,
                            DbRaises(o[1]) \/ DbRaises(o[2]),
                            [enabled |-> enabled[p],
                             last_sync |-> LastSyncTime(last_sync),
                             sync_interval |-> IF Truthy(interval) THEN interval ELSE Sixty])
              /\ nfaults' = Fault2(o)
    /\ loc' = Disturbed(loc, p)
    /\ UNCHANGED <<env, supabase_client, conn, items, settings, logs, market, enabled, pc,
                   last, overlap>>

\* 'true' / 'false' as enable_integration / disable_integration persist it
FlagStr(on) == IF on THEN TrueStr ELSE FalseStr
LogLabel(on) == IF on THEN "enable_log" ELSE "disable_log"
FlipName(on) == IF on THEN "enable_integration" ELSE "disable_integration"
FlipMessage(on) ==
    IF on THEN "Vinted integration enabled" ELSE "Vinted integration disabled"

\* self.enabled = True / False (lines 175, 192), whatever set_setting returned
FlagAfterSet(p, on, ok) == on

\* lines 173-176 / 190-193: the setting is written, the flag is set; were
\* set_setting to raise, the handler of line 184 / 201 would return False
FlipSet(p, on) ==
    /\ AdapterBegin(p)
    /\ \E ok \in Outcomes :
          /\ settings' = SetSetting(KeyEnabled, FlagStr(on), ok)
          /\ nfaults' = Fault(ok)
          /\ IF DbRaises(ok)
             THEN /\ call' = AdapterCall(FlipName(on), p, <<Call("set_setting", ok)>>,
                                         FALSE, FALSE)
                  /\ loc' = Disturbed(loc, p)
                  /\ UNCHANGED <<enabled, pc>>
             ELSE /\ enabled' = [enabled EXCEPT ![p] = FlagAfterSet(p, on, ok)]
                  /\ loc' = [Disturbed(loc, p) EXCEPT ![p] =
                                [IdleLoc EXCEPT !.calls = <<Call("set_setting", ok)>>]]
                  /\ pc' = [pc EXCEPT ![p] = LogLabel(on)]
                  /\ UNCHANGED call
    /\ UNCHANGED <<env, supabase_client, conn, items, logs, market, last, overlap>>

\* lines 178-183 / 195-200: the event is logged and True returned (False by
\* the handler, were log_vinted_event to raise)
FlipLog(p, on) ==
    /\ pc[p] = LogLabel(on)
    /\ \E ok \in Outcomes :
          /\ logs' = LogVintedEvent(IF on THEN "integration_enabled"
                                    ELSE "integration_disabled",
                                    "Success", FlipMessage(on), NoData, ok)
          /\ call' = AdapterCall(FlipName(on), p,
                                 Append(loc[p].calls, Call("log_vinted_event", ok)),
                                 FALSE, ~DbRaises(ok))
          /\ nfaults' = Fault(ok)
    /\ loc' = [loc EXCEPT ![p] = IdleLoc]
    /\ pc' = [pc EXCEPT ![p] = "idle"]
    /\ UNCHANGED <<env, supabase_client, conn, items, settings, market, now, enabled, last,
                   recent, nops, overlap>>

EnableSet(p) == FlipSet(p, TRUE)
EnableLog(p) == FlipLog(p, TRUE)
DisableSet(p) == FlipSet(p, FALSE)
DisableLog(p) == FlipLog(p, FALSE)

\* test_connection (lines 205-242): one test search, one log event, a result.
\* The log call of the handler (line 235) is under no try; a log call of the
\* try block that raised would lead to the handler and its log call, taken to
\* fail alike
TestConnection(p) ==
    /\ AdapterBegin(p)
    /\ \E o \in Outcomes2, found \in BOOLEAN :
          LET status == IF ~o[1] THEN "Error" ELSE IF found THEN "Success" ELSE "Warning"
              message == IF ~o[1] THEN "search failed"
                         ELSE IF found THEN "Connection successful"
                         ELSE "Connected but no items returned"
          IN  /\ logs' = LogVintedEvent("connection_test", status, message, NoData, o[2])
              /\ call' = AdapterCall("test_connection", p,
                            <<Call("search", o[1]), Call("log_vinted_event", o[2])>>,
                            DbRaises(o[2]),
                            [success |-> o[1], message |-> message])
              /\ nfaults' = Fault2(o)
    /\ loc' = Disturbed(loc, p)
    /\ UNCHANGED <<env, supabase_client, conn, items, settings, market, enabled, pc, last,
                   overlap>>

\* what the external search returns in this specification
AdapterMarkets == { <<l>> : l \in {m \in Listings : m.price = <<"2", "0">>} }

\* the values the enabled setting has when the adapters are constructed
EnabledSettings == {None, TrueStr, FalseStr, <<"T", "r", "u", "e">>}

InitAdapter ==
    /\ items = <<>>
    /\ logs = <<>>
    /\ market \in AdapterMarkets
    /\ now = 0
    /\ \E e \in EnabledSettings, b \in BanwordSettings \ {None} :
          settings = [k \in SettingKeys |->
                         IF k = KeyEnabled THEN e ELSE IF k = KeyBanwords THEN b ELSE None]
    /\ enabled \in [Procs -> {CheckEnabled(TRUE), CheckEnabled(FALSE)}]
    /\ pc = [p \in Procs |-> "idle"]
    /\ loc = [p \in Procs |-> IdleLoc]
    /\ last = [p \in Procs |-> NoLast]
    /\ recent = NoRecent
    /\ nops = 0
    /\ nfaults = 0
    /\ overlap = FALSE
    /\ call = NoCall
    /\ env = FullEnv
    /\ supabase_client = TheClient
    /\ conn = ConnAtConstruction

NextAdapter ==
    \/ \E p \in Procs : IsEnabled(p)
    \/ \E p \in Procs : GetStatus(p)
    \/ \E p \in Procs : EnableSet(p)
    \/ \E p \in Procs : EnableLog(p)
    \/ \E p \in Procs : DisableSet(p)
    \/ \E p \in Procs : DisableLog(p)
    \/ \E p \in Procs : TestConnection(p)
    \/ \E p \in Procs : SyncQueryDisabled(p)
    \/ \E p \in Procs : SyncQuerySearch(p)
    \/ \E p \in Procs : LoadBanwords(p)
    \/ \E p \in Procs : CheckItemRejected(p)
    \/ \E p \in Procs : CheckItemLookup(p)
    \/ \E p \in Procs : CreateItemStep(p)
    \/ \E p \in Procs : LogItem(p)
    \/ \E p \in Procs : Stamp(p)
    \/ \E p \in Procs : LogSync(p)
    \/ \E p \in Procs : LogError(p)
    \/ NextStore

SpecAdapter == InitAdapter /\ [][NextAdapter]_vars

----------------------------------------------------------------------------
\* sync_query on one given marketplace: an enabled integration, an empty
\* inventory, the ban-word "fake", and two listings without a brand.

FakeNikeShoes == <<"F", "a", "k", "e", " ", "N", "i", "k", "e", " ", "S", "h", "o", "e", "s">>
NikeShoes == <<"N", "i", "k", "e", " ", "S", "h", "o", "e", "s">>
Fake == <<"f", "a", "k", "e">>

\* the two listings; a listing without a brand has brand_title None or ''
ScenarioMarket(brand) ==
    << [id |-> 1, title |-> FakeNikeShoes, price |-> <<"2", "0">>,
        brand_title |-> brand, photo |-> None],
       [id |-> 2, title |-> NikeShoes, price |-> <<"2", "0">>,
        brand_title |-> brand, photo |-> None] >>

InitScenario ==
    /\ items = <<>>
    /\ logs = <<>>
    /\ market \in {ScenarioMarket(None), ScenarioMarket(<<>>)}
    /\ now = 0
    /\ settings = [k \in SettingKeys |->
                      IF k = KeyEnabled THEN TrueStr
                      ELSE IF k = KeyBanwords THEN Fake ELSE None]
    /\ enabled = [p \in Procs |-> CheckEnabled(TRUE)]
    /\ pc = [p \in Procs |-> "idle"]
    /\ loc = [p \in Procs |-> IdleLoc]
    /\ last = [p \in Procs |-> NoLast]
    /\ recent = NoRecent
    /\ nops = 0
    /\ nfaults = 0
    /\ overlap = FALSE
    /\ call = NoCall
    /\ env = FullEnv
    /\ supabase_client = TheClient
    /\ conn = ConnAtConstruction

NextScenario ==
    \/ \E p \in Procs : SyncQuerySearch(p)
    \/ \E p \in Procs : LoadBanwords(p)
    \/ \E p \in Procs : CheckItemRejected(p)
    \/ \E p \in Procs : CheckItemLookup(p)
    \/ \E p \in Procs : CreateItemStep(p)
    \/ \E p \in Procs : LogItem(p)
    \/ \E p \in Procs : Stamp(p)
    \/ \E p \in Procs : LogSync(p)
    \/ \E p \in Procs : LogError(p)

SpecScenario == InitScenario /\ [][NextScenario]_vars

----------------------------------------------------------------------------
\* Properties.

\* w occurs in t at some offset
Occurs(w, t) ==
    \E k \in 0..(Len(t) - Len(w)) : \A j \in 1..Len(w) : t[k + j] = w[j]

\* C9: can_import_item returns (False, reason) with a non-empty reason exactly
\* when the lower-cased title contains some listed ban-word, lower-cased, as a
\* substring, and (True, None) otherwise, an empty or absent list included.
C9_CanImportItem ==
    call.fn = "can_import_item" =>
        LET banned == /\ call.banwords # NoneList
                      /\ \E k \in 1..Len(call.banwords) :
                            Occurs(Lower(call.banwords[k]), Lower(call.title))
        IN  /\ ~call.ret.raised
            /\ banned => /\ call.ret.should_import = FALSE
                         /\ call.ret.reason # None
                         /\ Len(call.ret.reason) > 0
            /\ ~banned => /\ call.ret.should_import = TRUE
                          /\ call.ret.reason = None

\* C9 witness: a title of several characters is rejected on the second word of
\* the list, which occurs in it only when case is ignored.
C9_Witness ==
    /\ call.fn = "can_import_item"
    /\ call.banwords # NoneList
    /\ Len(call.banwords) = 2
    /\ call.ret.should_import = FALSE
    /\ ~Occurs(Lower(call.banwords[1]), Lower(call.title))
    /\ ~Occurs(call.banwords[2], call.title)
    /\ call.banwords[2] # <<>>
    /\ Len(call.title) > 1

\* the brand code the claim describes: the first three characters at most,
\* spaces left out, in upper case
BrandCode(b) ==
    LET head == SelectSeq(SubSeq(b, 1, Min(3, Len(b))), LAMBDA c : c # " ")
    IN  [k \in 1..Len(head) |-> UpperChar(head[k])]

\* C10 as stated: for every brand b other than null the sku is
\* "VINT-" + code(b) + "-" + i, and for the null brand "VINT-" + i.
C10_AsStated ==
    call.fn = "generate_sku" =>
        IF call.brand # None
        THEN call.ret = VINT \o <<"-">> \o BrandCode(call.brand) \o <<"-">> \o call.vinted_item_id
        ELSE call.ret = VINT \o <<"-">> \o call.vinted_item_id

\* C10 amended: for every non-empty brand b the sku is "VINT-" + code(b) + "-"
\* + i; for the null brand and for the empty brand it is "VINT-" + i.
C10_GenerateSku ==
    call.fn = "generate_sku" =>
        IF call.brand # None /\ call.brand # <<>>
        THEN call.ret = VINT \o <<"-">> \o BrandCode(call.brand) \o <<"-">> \o call.vinted_item_id
        ELSE call.ret = VINT \o <<"-">> \o call.vinted_item_id

\* C10 witness: a brand longer than three characters with a space among its
\* first three, its code two letters long.
C10_Witness ==
    /\ call.fn = "generate_sku"
    /\ call.brand # None
    /\ Len(call.brand) > 3
    /\ \E k \in 1..3 : call.brand[k] = " "
    /\ call.brand[4] # " "
    /\ Len(call.ret) = Len(VINT) + 1 + 2 + 1 + Len(call.vinted_item_id)

----------------------------------------------------------------------------
\* Properties of sync_query.

\* how the items of p's current or last sync_query fared, and what it fetched
OutcomesOf(p) == IF pc[p] = "idle" THEN last[p].outcomes ELSE loc[p].outcomes
FetchedOf(p) == IF pc[p] = "idle" THEN last[p].fetched ELSE loc[p].vinted_items

AllOk(calls) == \A k \in 1..Len(calls) : calls[k].ok
CountFn(calls, fn) == Cardinality({k \in 1..Len(calls) : calls[k].fn = fn})
CountOutcomes(outs, kinds) == Cardinality({k \in 1..Len(outs) : outs[k].outcome \in kinds})

ErrorKinds == {"raised", "not_normalized", "not_created"}
SkipKinds == {"banned", "exists"}

\* C1: sync_query on a disabled adapter returns success=false, imported=0,
\* skipped=0, errors=0 and the disabled message, makes no search call and no
\* store call, and leaves inventory, settings and the integration log as
\* they were.
C1_DisabledSync ==
    [][\A p \in Procs :
          (/\ pc[p] = "idle"
           /\ ~enabled[p]
           /\ nops' = nops + 1
           /\ (last'[p] # last[p] \/ pc'[p] # "idle"))
          => /\ pc'[p] = "idle"
             /\ last'[p].returned
             /\ last'[p].result.success = FALSE
             /\ last'[p].result.imported = 0
             /\ last'[p].result.skipped = 0
             /\ last'[p].result.errors = 0
             /\ last'[p].result.message = "Integration disabled"
             /\ last'[p].calls = <<>>
             /\ UNCHANGED <<items, settings, logs, nfaults>>]_vars

\* C1 witness: a disabled adapter has returned the disabled result while the
\* inventory holds a row imported through the other adapter.
C1_Witness ==
    \E p \in Procs :
        /\ ~enabled[p]
        /\ last[p].returned
        /\ last[p].result.message = "Integration disabled"
        /\ Len(items) > 0

\* C2 as stated: of two sync_query calls in sequence that fetched the same
\* result set, the second imports nothing, counts every item as skipped and
\* leaves the inventory as the first left it.
C2_AsStated ==
    (recent.valid /\ recent.prev.valid /\ recent.prev.fetched = recent.fetched)
    => /\ recent.result.imported = 0
       /\ recent.result.skipped = Len(recent.fetched)
       /\ recent.items = recent.prev.items

\* C2 amended: of two sync_query calls in sequence that fetched the same result
\* set, the second skips every item whose lookup finds a row and imports only
\* items whose lookup gave no row; when no store call failed in either call, it
\* imports nothing, leaves the inventory as the first left it, counts as
\* errors the items that raise or fail normalization and counts every other
\* item as skipped.
C2_Idempotent ==
    (recent.valid /\ recent.prev.valid /\ recent.prev.fetched = recent.fetched)
    => /\ \A k \in 1..Len(recent.outcomes) :
             /\ recent.outcomes[k].lookup = "found" => recent.outcomes[k].outcome = "exists"
             /\ recent.outcomes[k].outcome = "imported"
                   => recent.outcomes[k].lookup \in {"absent", "failed"}
       /\ (AllOk(recent.calls) /\ AllOk(recent.prev.calls))
          => /\ recent.result.imported = 0
             /\ recent.items = recent.prev.items
             /\ items = recent.items
             /\ \A k \in 1..Len(recent.outcomes) :
                   recent.outcomes[k].outcome \in {"banned", "exists", "raised", "not_normalized"}
             /\ recent.result.errors =
                   CountOutcomes(recent.outcomes, {"raised", "not_normalized"})
             /\ recent.result.skipped = Len(recent.fetched) - recent.result.errors

\* C2 witness: the second of two calls without a failed store call has skipped
\* the item the first imported and counted the other as an error again.
C2_Witness ==
    /\ recent.valid /\ recent.prev.valid /\ recent.prev.fetched = recent.fetched
    /\ AllOk(recent.calls) /\ AllOk(recent.prev.calls)
    /\ Len(recent.fetched) = 2
    /\ recent.prev.result.imported = 1
    /\ recent.prev.result.errors = 1
    /\ recent.result.skipped = 1
    /\ recent.result.errors = 1

\* C3: the existence lookup and the insert are separate steps, and the insert
\* is a plain one: whatever the inventory holds by then, the row is appended.
C3_InsertUnconditional ==
    /\ [](\A p \in Procs :
            pc[p] = "create" =>
               /\ loc[p].pending # NoRow
               /\ loc[p].outcomes[Len(loc[p].outcomes)].lookup \in {"absent", "failed"})
    /\ [][\A p \in Procs :
            (pc[p] = "create" /\ pc'[p] = "log_item")
            => items' = Append(items, loc[p].pending[1])]_vars

\* C3 witness: without any failed call, both callers have found the same
\* external id absent and both have imported it: two rows hold it.
C3_Witness ==
    /\ nfaults = 0
    /\ \E i, j \in 1..Len(items) :
          /\ i < j
          /\ items[i].vinted_item_id = items[j].vinted_item_id
          /\ \A p \in Procs :
                \E k \in 1..Len(OutcomesOf(p)) :
                   /\ StrOfInt(OutcomesOf(p)[k].id) = items[i].vinted_item_id
                   /\ OutcomesOf(p)[k].lookup = "absent"
                   /\ OutcomesOf(p)[k].outcome = "imported"

\* C4 as stated: no two rows of the inventory have the same sku, and the sku
\* of a row created by sync_query is a function of its external id and brand.
C4_AsStated ==
    /\ \A i, j \in 1..Len(items) : i < j => items[i].sku # items[j].sku
    /\ \A i, j \in 1..Len(items) :
          (/\ items[i].vinted_item_id # None
           /\ items[i].vinted_item_id = items[j].vinted_item_id
           /\ items[i].brand = items[j].brand)
          => items[i].sku = items[j].sku

\* C8 as stated: as long as no two sync_query calls have overlapped, no two
\* rows of the inventory hold the same external item id.
C8_AsStated ==
    ~overlap =>
        \A i, j \in 1..Len(items) :
            (i < j /\ items[i].vinted_item_id # None)
            => items[i].vinted_item_id # items[j].vinted_item_id

\* C5: a failure on one fetched item (can_import_item raises, the mapping gives
\* no row, the insert gives no row) adds one to errors, changes nothing else
\* and leaves the loop at the next item; every fetched item is processed in
\* turn, and how an item fares depends on the item and on what its own lookup
\* and insert gave, whatever failed before it.
C5_ItemFailureContinues ==
    /\ [](\A p \in Procs :
            /\ Len(OutcomesOf(p)) <= Len(FetchedOf(p))
            /\ \A k \in 1..Len(OutcomesOf(p)) :
                  LET o == OutcomesOf(p)[k]
                      vinted_item == FetchedOf(p)[k]
                  IN  /\ o.id = vinted_item.id
                      /\ o.outcome = "raised" => vinted_item.title = None /\ o.lookup = "none"
                      /\ o.outcome = "banned" => vinted_item.title # None /\ o.lookup = "none"
                      /\ o.outcome = "exists" => o.lookup = "found"
                      /\ o.outcome = "not_normalized"
                            => Float(vinted_item.price) < 0 /\ o.lookup \in {"absent", "failed"}
                      /\ o.outcome \in {"pending", "imported", "not_created"}
                            => Float(vinted_item.price) >= 0 /\ o.lookup \in {"absent", "failed"}
            /\ (last[p].returned /\ last[p].result.success /\ pc[p] = "idle")
               => /\ Len(last[p].outcomes) = Len(last[p].fetched)
                  /\ last[p].result.errors = CountOutcomes(last[p].outcomes, ErrorKinds)
                  /\ last[p].result.skipped = CountOutcomes(last[p].outcomes, SkipKinds)
                  /\ last[p].result.imported = CountOutcomes(last[p].outcomes, {"imported"}))
    /\ [][\A p \in Procs :
            (/\ pc[p] \in {"item", "create"}
             /\ pc'[p] # "idle"
             /\ loc'[p].result.errors # loc[p].result.errors)
            => /\ loc'[p].result.errors = loc[p].result.errors + 1
               /\ loc'[p].result.imported = loc[p].result.imported
               /\ loc'[p].result.skipped = loc[p].result.skipped
               /\ loc'[p].result.items = loc[p].result.items
               /\ loc'[p].result.success
               /\ loc'[p].idx = loc[p].idx + 1
               /\ loc'[p].vinted_items = loc[p].vinted_items
               /\ loc'[p].banwords = loc[p].banwords
               /\ pc'[p] = IF loc[p].idx < Len(loc[p].vinted_items) THEN "item" ELSE "stamp"
               /\ UNCHANGED <<items, settings, logs>>]_vars

\* C5 witness: a sync_query has returned with its first item counted as an
\* error and its second item imported.
C5_Witness ==
    \E p \in Procs :
        /\ pc[p] = "idle" /\ last[p].returned /\ last[p].result.success
        /\ Len(last[p].outcomes) = 2
        /\ last[p].outcomes[1].outcome \in ErrorKinds
        /\ last[p].outcomes[2].outcome = "imported"
        /\ last[p].result.errors = 1
        /\ last[p].result.imported = 1

SearchFailedResult ==
    [success |-> FALSE, imported |-> 0, skipped |-> 0, errors |-> 0, items |-> <<>>,
     message |-> "search failed"]

\* C6: when the search raises, sync_query returns success=false with the error
\* text, all counts 0 and no items; it makes one more call only, the logging
\* of one query_sync / Error event (appended when the store takes it), creates
\* no row, stamps nothing and logs no summary.
C6_SearchFailureAborts ==
    /\ [](\A p \in Procs :
            /\ pc[p] = "log_error" => loc[p].calls = <<Call("search", FALSE)>>
            /\ (pc[p] # "idle" /\ ~loc[p].calls[1].ok) => pc[p] = "log_error"
            /\ (pc[p] = "idle" /\ last[p].returned /\ last[p].calls # <<>>
                  /\ ~last[p].calls[1].ok)
               => /\ last[p].result = SearchFailedResult
                  /\ Len(last[p].calls) = 2
                  /\ last[p].calls[2].fn = "log_error"
                  /\ last[p].outcomes = <<>>
                  /\ last[p].stamp = None)
    /\ [][\A p \in Procs :
            /\ (pc[p] = "idle" /\ pc'[p] = "log_error")
               => UNCHANGED <<items, settings, logs>>
            /\ (pc[p] = "log_error" /\ pc'[p] # "log_error")
               => /\ pc'[p] = "idle"
                  /\ UNCHANGED <<items, settings>>
                  /\ IF last'[p].calls[2].ok
                     THEN /\ Len(logs') = Len(logs) + 1
                          /\ SubSeq(logs', 1, Len(logs)) = logs
                          /\ logs'[Len(logs')].event_type = "query_sync"
                          /\ logs'[Len(logs')].status = "Error"
                          /\ logs'[Len(logs')].data.error = "search failed"
                     ELSE logs' = logs]_vars

\* C6 witness: a sync_query whose search raised has returned, its Error event
\* is the last of the log, and the inventory holds the row an earlier sync
\* imported.
C6_Witness ==
    \E p \in Procs :
        /\ pc[p] = "idle" /\ last[p].returned
        /\ last[p].result = SearchFailedResult
        /\ logs # <<>>
        /\ logs[Len(logs)].event_type = "query_sync"
        /\ logs[Len(logs)].status = "Error"
        /\ Len(items) = 1
        /\ settings[KeyLastSync] # None

\* C7: an enabled sync_query whose search went through reaches the stamp only
\* with every item processed, then calls set_setting('vinted_last_sync', now)
\* once and logs one query_sync / Success summary carrying the final counts,
\* and only then returns; the setting and the log take them when the store
\* does.
C7_StampAndSummary ==
    /\ [](\A p \in Procs :
            /\ pc[p] \in {"stamp", "log_sync"}
                  => /\ loc[p].idx > Len(loc[p].vinted_items)
                     /\ Len(loc[p].outcomes) = Len(loc[p].vinted_items)
            /\ pc[p] = "log_sync" => loc[p].calls[Len(loc[p].calls)].fn = "set_setting"
            /\ (pc[p] = "idle" /\ last[p].returned /\ last[p].calls # <<>>
                  /\ last[p].calls[1].ok)
               => LET calls == last[p].calls
                      n == Len(calls)
                  IN  /\ n >= 4
                      /\ calls[n].fn = "log_sync"
                      /\ calls[n - 1].fn = "set_setting"
                      /\ CountFn(calls, "log_sync") = 1
                      /\ CountFn(calls, "set_setting") = 1
                      /\ CountFn(calls, "log_error") = 0
                      /\ last[p].stamp # None
                      /\ last[p].result.success)
    /\ [][\A p \in Procs :
            /\ (pc[p] = "stamp" /\ pc'[p] # "stamp")
               => /\ pc'[p] = "log_sync"
                  /\ loc'[p].stamp = StrOfInt(now)
                  /\ loc'[p].result = loc[p].result
                  /\ UNCHANGED <<items, logs>>
                  /\ IF loc'[p].calls[Len(loc'[p].calls)].ok
                     THEN settings' = [settings EXCEPT ![KeyLastSync] = StrOfInt(now)]
                     ELSE settings' = settings
            /\ (pc[p] = "log_sync" /\ pc'[p] # "log_sync")
               => /\ pc'[p] = "idle"
                  /\ last'[p].result = loc[p].result
                  /\ UNCHANGED <<items, settings>>
                  /\ IF last'[p].calls[Len(last'[p].calls)].ok
                     THEN /\ Len(logs') = Len(logs) + 1
                          /\ SubSeq(logs', 1, Len(logs)) = logs
                          /\ logs'[Len(logs')].event_type = "query_sync"
                          /\ logs'[Len(logs')].status = "Success"
                          /\ logs'[Len(logs')].message =
                                <<"Synced query ", loc[p].query_id,
                                  last'[p].result.imported, last'[p].result.skipped,
                                  last'[p].result.errors>>
                     ELSE logs' = logs]_vars

\* C7 witness: a sync_query that fetched two items and imported none of them
\* has returned; the setting holds its stamp and the log ends with its summary.
C7_Witness ==
    \E p \in Procs :
        /\ pc[p] = "idle" /\ last[p].returned /\ last[p].result.success
        /\ Len(last[p].fetched) = 2
        /\ last[p].result.imported = 0
        /\ last[p].result.skipped = 1
        /\ last[p].result.errors = 1
        /\ settings[KeyLastSync] = last[p].stamp
        /\ last[p].stamp # None
        /\ logs # <<>>
        /\ logs[Len(logs)].event_type = "query_sync"
        /\ logs[Len(logs)].status = "Success"
        /\ logs[Len(logs)].message = <<"Synced query ", last[p].query_id, 0, 1, 1>>

\* C7 witness for the empty result: nothing fetched, the stamp and the summary
\* are there all the same.
C7_WitnessEmpty ==
    \E p \in Procs :
        /\ pc[p] = "idle" /\ last[p].returned /\ last[p].result.success
        /\ last[p].fetched = <<>>
        /\ settings[KeyLastSync] = last[p].stamp
        /\ last[p].stamp # None
        /\ logs # <<>>
        /\ logs[Len(logs)].message = <<"Synced query ", last[p].query_id, 0, 0, 0>>

----------------------------------------------------------------------------
\* Properties of the store functions.

\* the profit of the Sold rows among the first n rows, null counting as 0
RECURSIVE SoldProfitUpTo(_, _)
SoldProfitUpTo(rows, n) ==
    IF n = 0 THEN 0
    ELSE SoldProfitUpTo(rows, n - 1)
         + (IF rows[n].listing_status = "Sold" /\ rows[n].profit # <<>>
            THEN rows[n].profit[1] ELSE 0)

\* the rows of a given status
WithStatus(rows, status) == {k \in 1..Len(rows) : rows[k].listing_status = status}

\* C12: for every set of rows the store returns, get_items_stats gives
\* total_items = the number of rows, listed / sold / draft = the number of rows
\* of that status, and total_profit = the sum of profit over the Sold rows
\* only, a missing profit counting as 0.
C12_GetItemsStats ==
    (call.fn = "get_items_stats" /\ ~call.failed) =>
        /\ ~call.raised
        /\ call.ret.total_items = Len(call.arg)
        /\ call.ret.listed = Cardinality(WithStatus(call.arg, "Listed"))
        /\ call.ret.sold = Cardinality(WithStatus(call.arg, "Sold"))
        /\ call.ret.draft = Cardinality(WithStatus(call.arg, "Draft"))
        /\ call.ret.total_profit = SoldProfitUpTo(call.arg, Len(call.arg))

\* C12 witness: the rows {Listed x2, Sold x1 with profit 10, Draft x1}, one of
\* the Listed rows carrying a profit of its own, give 4 / 2 / 1 / 1 / 10.
C12_Witness ==
    /\ call.fn = "get_items_stats" /\ ~call.failed
    /\ Len(call.arg) = 4
    /\ \E k \in 1..4 : call.arg[k] = [listing_status |-> "Sold", profit |-> <<1000>>]
    /\ \E k \in 1..4 : call.arg[k] = [listing_status |-> "Listed", profit |-> <<500>>]
    /\ call.ret = [total_items |-> 4, listed |-> 2, sold |-> 1, draft |-> 1,
                   total_profit |-> 1000]

\* the functions of database.py that are called directly
DbFunctions ==
    {"get_setting", "set_setting", "get_item_by_vinted_id", "create_item",
     "get_items_stats", "log_vinted_event", "get_vinted_logs"}

\* C13 as stated: when either environment value is absent, every store
\* operation fails fatally: the configuration-missing error reaches the caller
\* of the operation and is not turned into an ordinary result.
C13_AsStated ==
    (call.fn \in DbFunctions /\ call.config_missing) => call.raised

----------------------------------------------------------------------------
\* Properties of the adapter's operations and of the store functions together.

\* the sentinel each function of database.py gives when its store call fails
Sentinel(fn) ==
    CASE fn = "get_setting" -> None
      [] fn = "set_setting" -> FALSE
      [] fn = "get_item_by_vinted_id" -> NoRow
      [] fn = "create_item" -> NoRow
      [] fn = "get_items_stats" -> ZeroStats
      [] fn = "log_vinted_event" -> FALSE
      [] fn = "get_vinted_logs" -> <<>>

C15_AsStated ==
    [][\A p \in Procs, on \in BOOLEAN :
          (pc[p] = LogLabel(on) /\ pc'[p] = "idle" /\ call'.ret = TRUE)
             => /\ enabled'[p] = on
                /\ settings'[KeyEnabled] = FlagStr(on)
                /\ Len(logs') = Len(logs) + 1]_vars

\* C16: the integration log is append-only: every step of the adapters and of
\* the store functions leaves the events already written as they are, in
\* place, and at most adds events after them.
C16_LogAppendOnly ==
    [][/\ Len(logs') >= Len(logs)
       /\ \A k \in 1..Len(logs) : logs'[k] = logs[k]]_vars

\* C16 witness: two events of the same type and different status are in the
\* log, the older one first.
C16_Witness ==
    /\ Len(logs) >= 2
    /\ logs[1].event_type = logs[2].event_type
    /\ logs[1].status # logs[2].status

\* this step is p's call of the adapter operation fn, leaving a new record
CallBy(p, fn) ==
    /\ call'.fn = fn
    /\ call'.p = p
    /\ call.fn = fn => (call.p # p \/ call.ret # call'.ret \/ call.calls # call'.calls)

\* C17: an adapter's flag is what the settings read gave at construction, true
\* only if the stored value is exactly "true"; afterwards it changes only in
\* that adapter's own enable_integration / disable_integration, and
\* sync_query, is_enabled and get_status go by the flag, whatever the
\* persisted setting has become.
C17_FlagReadOnce ==
    /\ \A p \in Procs : (nops = 0 /\ enabled[p]) => settings[KeyEnabled] = TrueStr
    /\ [][\A p \in Procs :
            /\ enabled'[p] # enabled[p]
                  => /\ pc[p] = "idle"
                     /\ pc'[p] \in {"enable_log", "disable_log"}
                     /\ enabled'[p] = (pc'[p] = "enable_log")
            /\ CallBy(p, "is_enabled") => call'.ret = enabled[p]
            /\ CallBy(p, "get_status") => call'.ret.enabled = enabled[p]
            /\ (pc[p] = "idle" /\ pc'[p] \in {"banwords", "log_error"}) => enabled[p]
            /\ (pc[p] = "idle" /\ pc'[p] = "idle" /\ last'[p] # last[p])
                  => ~enabled[p] /\ last'[p].result = DisabledResult]_vars

\* C17 witness: the persisted setting has been turned to "false" by the other
\* adapter, and this adapter, its flag still true, is past the check of
\* sync_query and fetching.
C17_Witness ==
    \E p \in Procs :
        /\ settings[KeyEnabled] = FalseStr
        /\ enabled[p] /\ ~enabled[3 - p]
        /\ call.fn = "disable_integration" /\ call.p = 3 - p
        /\ pc[p] = "banwords"

----------------------------------------------------------------------------
\* Properties of the scenario.

\* C11: with the integration enabled, an empty inventory, the ban-word "fake"
\* and the listings {1, "Fake Nike Shoes", 20} and {2, "Nike Shoes", 20}
\* without a brand, a sync_query none of whose calls fails returns skipped=1,
\* imported=1, errors=0, and the one row imported has sale_price 20,
\* fees_estimate 2.0, listing_status "Draft" and the sku "VINT-2".
C11_Scenario ==
    \A p \in Procs :
        (nops = 1 /\ pc[p] = "idle" /\ last[p].returned /\ AllOk(last[p].calls))
           => /\ last[p].result.success
              /\ last[p].result.skipped = 1
              /\ last[p].result.imported = 1
              /\ last[p].result.errors = 0
              /\ Len(items) = 1
              /\ last[p].result.items = items
              /\ items[1].sale_price = 2000
              /\ items[1].fees_estimate = 200
              /\ items[1].listing_status = "Draft"
              /\ items[1].sku = VINT \o <<"-", "2">>

\* C11 witness: the sync of the scenario has returned, all its calls having
\* gone through, the first listing skipped on the ban-word and the second
\* imported.
C11_Witness ==
    \E p \in Procs :
        /\ nops = 1 /\ pc[p] = "idle" /\ last[p].returned /\ AllOk(last[p].calls)
        /\ last[p].outcomes[1].outcome = "banned"
        /\ last[p].outcomes[2].outcome = "imported"
        /\ Len(items) = 1
        /\ market = ScenarioMarket(None)

----------------------------------------------------------------------------
\* Further properties of sync_query.

\* the calls of p's current or last sync_query
CallsOf(p) == IF pc[p] = "idle" THEN last[p].calls ELSE loc[p].calls

\* the title of the item p's loop is at contains one of the ban-words read
BannedNow(p) ==
    LET vinted_item == loc[p].vinted_items[loc[p].idx]
    IN  /\ vinted_item.title # None
        /\ \E k \in 1..Len(loc[p].banwords) :
              Occurs(loc[p].banwords[k], Lower(vinted_item.title))

\* C18: the ban-word check comes first for each item: an item whose title
\* contains a ban-word is counted as skipped with no store call, no
\* normalization and no insert made for it; the ban-word list is read from
\* settings once per sync, right after the fetch, and is the setting split on
\* the delimiter, stripped, lower-cased, blank entries dropped.
C18_BanwordsFirst ==
    /\ [](\A p \in Procs :
            /\ CountFn(CallsOf(p), "get_setting") <= 1
            /\ \A k \in 1..Len(CallsOf(p)) :
                  CallsOf(p)[k].fn = "get_setting"
                     => k = 2 /\ CallsOf(p)[1].fn = "search" /\ CallsOf(p)[1].ok
            /\ pc[p] \in {"item", "create", "log_item", "stamp", "log_sync"}
                  => /\ CountFn(loc[p].calls, "get_setting") = 1
                     /\ loc[p].banwords =
                           IF loc[p].calls[2].ok /\ settings[KeyBanwords] # None
                           THEN << <<"a">> >> ELSE <<>>)
    /\ [][\A p \in Procs :
            (/\ pc[p] = "item"
             /\ loc'[p].idx # loc[p].idx \/ pc'[p] # "item"
             /\ BannedNow(p))
            => /\ loc'[p].result.skipped = loc[p].result.skipped + 1
               /\ loc'[p].result.imported = loc[p].result.imported
               /\ loc'[p].result.errors = loc[p].result.errors
               /\ loc'[p].calls = loc[p].calls
               /\ loc'[p].pending = NoRow
               /\ loc'[p].idx = loc[p].idx + 1
               /\ UNCHANGED <<items, settings, logs, nfaults>>]_vars

\* C18 witness: a sync of two listings has returned, the first skipped on the
\* ban-word with no call made for it, the second looked up and imported.
C18_Witness ==
    \E p \in Procs :
        /\ pc[p] = "idle" /\ last[p].returned
        /\ Len(last[p].outcomes) = 2
        /\ last[p].outcomes[1].outcome = "banned"
        /\ last[p].outcomes[2].outcome = "imported"
        /\ CountFn(last[p].calls, "get_item_by_vinted_id") = 1
        /\ CountFn(last[p].calls, "create_item") = 1

\* the store calls fn of a trace that went through
CountOk(calls, fn) ==
    Cardinality({k \in 1..Len(calls) : calls[k].fn = fn /\ calls[k].ok})

\* C19: when sync_query returns success=true, imported + skipped + errors is
\* the number of fetched items, and imported is both the length of the
\* result's items list and the number of inventory rows the call created.
C19_CountsAddUp ==
    /\ [](\A p \in Procs :
            (pc[p] = "idle" /\ last[p].returned /\ last[p].result.success)
               => LET r == last[p].result
                  IN  /\ r.imported + r.skipped + r.errors = Len(last[p].fetched)
                      /\ r.imported = Len(r.items)
                      /\ r.imported = CountOk(last[p].calls, "create_item")
                      /\ \A k \in 1..Len(r.items) :
                            \E j \in 1..Len(items) : items[j] = r.items[k])
    /\ [][\A p \in Procs :
            (pc[p] = "create" /\ pc'[p] # "create")
               => /\ Len(items') - Len(items)
                        = loc'[p].result.imported - loc[p].result.imported
                  /\ Len(loc'[p].result.items) = loc'[p].result.imported]_vars

\* C19 witness: a sync of two listings has returned success with imported=2,
\* its two rows in the inventory.
C19_Witness ==
    \E p \in Procs :
        /\ pc[p] = "idle" /\ last[p].returned /\ last[p].result.success
        /\ Len(last[p].fetched) = 2
        /\ last[p].result.imported = 2
        /\ Len(last[p].result.items) = 2
        /\ Len(items) >= 2

\* the fields normalize_item fixes, on a row
FixedFields(r) ==
    /\ r.listing_status = "Draft"
    /\ r.condition = "Good"
    /\ r.shipping_paid_by = "Buyer"
    /\ r.shipping_cost = 0
    /\ r.platforms = <<"Vinted">>
    /\ Len(r.photos) <= 1

\* C20: every inventory row sync_query creates has listing_status "Draft",
\* condition "Good", shipping paid by the buyer at cost 0, the single platform
\* Vinted, at most one photo, the external item's id as vinted_item_id and the
\* query_id of the call as vinted_query_id; sync_query creates no row in
\* status Listed or Sold.
C20_ImportedRowShape ==
    /\ [](\A k \in 1..Len(items) :
            items[k].vinted_item_id # None
               => FixedFields(items[k]) /\ items[k].vinted_query_id \in QueryIds)
    /\ [][\A p \in Procs :
            (pc[p] = "create" /\ pc'[p] # "create" /\ items' # items)
               => LET r == items'[Len(items')]
                      vinted_item == loc[p].vinted_items[loc[p].idx]
                  IN  /\ Len(items') = Len(items) + 1
                      /\ FixedFields(r)
                      /\ r.listing_status \notin {"Listed", "Sold"}
                      /\ r.vinted_item_id = StrOfInt(vinted_item.id)
                      /\ r.vinted_query_id = loc[p].query_id
                      /\ r.photos = IF vinted_item.photo # None
                                    THEN <<vinted_item.photo>> ELSE <<>>]_vars

\* C20 witness: the inventory holds a row entered by hand in status Listed and
\* a row sync_query created for query 2, with its one photo.
C20_Witness ==
    /\ \E k \in 1..Len(items) :
          items[k].vinted_item_id = None /\ items[k].listing_status = "Listed"
    /\ \E k \in 1..Len(items) :
          /\ items[k].vinted_item_id # None
          /\ items[k].vinted_query_id = 2
          /\ Len(items[k].photos) = 1
          /\ items[k].listing_status = "Draft"

----------------------------------------------------------------------------
\* Properties of the store connection.

\* C21 as stated: over any sequence of store operations the client is created
\* at most once, the two environment values are read once, at first use,
\* every later get_supabase call gives the same handle, and once created the
\* handle is never reset or replaced.
C21_AsStated ==
    /\ [](/\ conn.clients_created <= 1
          /\ conn.env_reads <= 1
          /\ (nops > 0 /\ supabase_client # NoClient) => conn.env_reads = 1)
    /\ [][/\ supabase_client # NoClient => supabase_client' = supabase_client
          /\ (nops' # nops /\ supabase_client # NoClient)
                => GetSupabase.client = supabase_client /\ conn' = conn]_vars

====
